---- MODULE Spec2Model ----
(***************************************************************************)
(* Verification model of the capstone-agent repository.                    *)
(*                                                                         *)
(* Part I   - Itinerary tools (src/agent/agent/tools/itineraryTools.py):   *)
(*            get_itinerary, update_itinerary and the four add_* tools,    *)
(*            run by concurrent tool calls against one Cosmos container.   *)
(* Part II  - Delegation tools of the supervisor (src/agent/agent/graph.py)*)
(* Part III - Approval graph of src/agent/graph.py served by the endpoints *)
(*            of src/main.py on a checkpointed thread.                     *)
(* Part IV  - The approval step factory make_human_approval.               *)
(* Part V   - AmadeusAuth.get_token (src/agent/agent/auth/amadeus_auth.py  *)
(*            and src/agent/auth/amadeus_auth.py).                         *)
(***************************************************************************)
EXTENDS Integers, Sequences, FiniteSets, Bags, TLC

\* ------------------------------------------------------------------------
\* Bounds of the model
\* ------------------------------------------------------------------------
\* total number of tool calls issued against the container
MaxCalls == 2

\* total number of requests the endpoints of a thread receive
MaxRequests == 3

\* a supervisor run starts while its thread has fewer checkpoints than this
MaxCheckpoints == 3

\* number of times the clock read by get_token advances
MaxTicks == 3

\* ------------------------------------------------------------------------
\* Values
\* ------------------------------------------------------------------------
\* Python None for string-valued optional arguments and fields
None == "None"

\* Python truthiness of an optional string: None and "" are falsy
Truthy(v) == v # None /\ v # ""

\* concurrent tool calls (coroutines on the event loop)
Procs == {"p1", "p2"}

\* the itinerary that exists in the container, and one that does not
ItineraryIds == {"it1", "missing"}

\* an Optional[dict]: <<>> is None, <<d>> is the dict d
NoData == <<>>

\* the empty dict
EmptyDict == [x \in {} |-> None]

\* dates that datetime.fromisoformat accepts, as day ordinals
DayOf(s) ==
  CASE s = "2025-06-01" -> 1
    [] s = "2025-06-05" -> 5
    [] s = "2025-06-10" -> 10
    [] s = "2025-07-01" -> 31
    [] OTHER -> 0

\* datetime.fromisoformat(s) raises ValueError on these
IsIsoDate(s) == DayOf(s) # 0

VARIABLES
  db,        \* the Cosmos container "itineraries": itinerary id -> item
  now,       \* datetime.utcnow(), advanced by every write
  pc,        \* per tool call: position in the tool's body
  call,      \* per tool call: the tool invoked and its arguments
  local,     \* per tool call: the tool's local variables
  result,    \* per tool call: the dict the tool returned last
  ncalls,    \* number of tool calls issued so far
  applied    \* history: bag of the add_* calls that returned success

itinVars == <<db, now, pc, call, local, result, ncalls, applied>>

VARIABLES
  supPc,           \* supervisor run: "idle", or the node that runs next
  supSteps,        \* supersteps the current supervisor run has executed
  toolCall,        \* the tool call of the supervisor's last AI message
  toolResult,      \* the text the last delegation tool returned
  delegated,       \* this run: (tool, request) -> times the tool was invoked
  specialistRuns,  \* this run: (tool, request) -> times its specialist ran
  supResponse,     \* what the chat endpoint answered last
  supMessages,     \* the messages channel of the current supervisor run
  checkpoints      \* the supervisor thread's checkpoints, newest first

supVars == <<supPc, supSteps, toolCall, toolResult, delegated, specialistRuns,
             supResponse, supMessages, checkpoints>>

VARIABLES
  store,     \* the checkpointer's latest checkpoint of the thread
  hpc,       \* per request handler: "idle" or "running"
  hreq,      \* per request handler: the request being served
  hloc,      \* per request handler: the state of its graph run
  hresp,     \* per request handler: what it answered last
  nreq,      \* number of requests received so far
  delivered  \* history: checkpoint id -> decisions delivered to its interrupt

thrVars == <<store, hpc, hreq, hloc, hresp, nreq, delivered>>

VARIABLES
  approval   \* one approval step built by make_human_approval, and its call

fnVars == <<approval>>

VARIABLES
  token,     \* AmadeusAuth.token
  expiry,    \* AmadeusAuth.expiry
  clock,     \* what time.time() returns
  apc,       \* per caller of get_token: "idle" or "fetching"
  aret       \* per caller: when it called get_token last, and what its last
             \* call that ended returned or raised

authVars == <<token, expiry, clock, apc, aret>>

\* the variables outside each part
notItin == <<supVars, thrVars, fnVars, authVars>>
notSup == <<itinVars, thrVars, fnVars, authVars>>
notThr == <<itinVars, supVars, fnVars, authVars>>
notApproval == <<itinVars, supVars, thrVars, authVars>>
notAuth == <<itinVars, supVars, thrVars, fnVars>>

\* ------------------------------------------------------------------------
\* Part I - itinerary tools
\* ------------------------------------------------------------------------
\* lookup of an optional tool argument: absent arguments default to None
Arg(args, k) == IF k \in DOMAIN args THEN args[k] ELSE None

\* a dict with one optional key
Opt(cond, k, v) == IF cond THEN [x \in {k} |-> v] ELSE EmptyDict

AddTools == {"add_flight_to_itinerary", "add_accommodation_to_itinerary",
             "add_activity_to_itinerary", "add_restaurant_to_itinerary"}

\* the list of the itinerary each add_* tool appends to
ListOf(tool) ==
  CASE tool = "add_flight_to_itinerary" -> "flights"
    [] tool = "add_accommodation_to_itinerary" -> "accommodations"
    [] tool = "add_activity_to_itinerary" -> "activities"
    [] tool = "add_restaurant_to_itinerary" -> "restaurants"

\* arguments the language model may pass to each add_* tool
FlightA == [airline |-> "United", flight_number |-> "UA123",
            departure_airport |-> "JFK", departure_time |-> "2025-06-01T10:00",
            arrival_airport |-> "NRT", arrival_time |-> "2025-06-02T13:00"]
FlightB == [airline |-> "American", flight_number |-> "AA150",
            departure_airport |-> "NRT", departure_time |-> "2025-06-10T08:00",
            arrival_airport |-> "JFK", arrival_time |-> "2025-06-10T20:00",
            seat |-> "12A", cost |-> "350.0"]
HotelA == [name |-> "Grand Hyatt", accommodation_type |-> "hotel",
           check_in |-> "2025-06-01", check_out |-> "2025-06-05",
           city |-> "Tokyo", address |-> "1 Caller St"]
ActivityA == [name |-> "Louvre", city |-> "Paris", date |-> "2025-07-01",
              location |-> "Rue de Rivoli"]
RestaurantA == [name |-> "Jiro", city |-> "Tokyo", date |-> "2025-06-05"]

AddRequests ==
  {[tool |-> "add_flight_to_itinerary", args |-> FlightA],
   [tool |-> "add_flight_to_itinerary", args |-> FlightB],
   [tool |-> "add_accommodation_to_itinerary", args |-> HotelA],
   [tool |-> "add_activity_to_itinerary", args |-> ActivityA],
   [tool |-> "add_restaurant_to_itinerary", args |-> RestaurantA]}

\* keyword arguments the language model may pass to update_itinerary
UpdateRequests ==
  {[title |-> "Tokyo 2025"],
   [start_date |-> "2025-06-05", notes |-> "shorter"],
   [end_date |-> "2025-06-01"],
   [start_date |-> "june first"],
   [start_date |-> ""]}

\* what the Azure Maps fuzzy search can yield for one query: None (no key,
\* non-200, no results, exception), or the standardized data object
MapsData == {[freeformAddress |-> "1 Verified St", municipality |-> "Tokyo"]}
verify_location_with_azure_maps == {NoData} \cup {<<d>> : d \in MapsData}

\* the itinerary document as created outside this system
InitialItinerary ==
  [id |-> "it1", userId |-> "u1", title |-> "Tokyo", destination |-> "Tokyo",
   startDate |-> "2025-06-01", endDate |-> "2025-06-10", status |-> "planning",
   budget |-> None, currency |-> "USD", notes |-> None, profileId |-> None,
   flights |-> <<>>, accommodations |-> <<>>, activities |-> <<>>,
   restaurants |-> <<>>, updatedAt |-> 0, etag |-> 0]

\* the dict each add_* tool builds from its arguments and the verification
new_flight(a, dep, arr) ==
  [airline |-> a.airline, flightNumber |-> a.flight_number,
   departure |-> [airport |-> a.departure_airport, time |-> a.departure_time]
                 @@ Opt(dep # NoData, "azureMapsData", dep),
   arrival |-> [airport |-> a.arrival_airport, time |-> a.arrival_time]
               @@ Opt(arr # NoData, "azureMapsData", arr)]
  @@ Opt(Truthy(Arg(a, "seat")), "seat", Arg(a, "seat"))
  @@ Opt(Truthy(Arg(a, "confirmation")), "confirmation", Arg(a, "confirmation"))
  @@ Opt(Arg(a, "cost") # None, "cost", Arg(a, "cost"))

\* new_accommodation, but the caller's address is not used as fallback
new_accommodationWithoutFallback(a, m) ==
  [name |-> a.name, type |-> a.accommodation_type,
   checkIn |-> a.check_in, checkOut |-> a.check_out]
  @@ (IF m # NoData
        THEN [address |-> m[1].freeformAddress, azureMapsData |-> m]
        ELSE EmptyDict)
  @@ Opt(Truthy(Arg(a, "confirmation")), "confirmation", Arg(a, "confirmation"))
  @@ Opt(Arg(a, "cost") # None, "cost", Arg(a, "cost"))

new_accommodation(a, m) ==
  [name |-> a.name, type |-> a.accommodation_type,
   checkIn |-> a.check_in, checkOut |-> a.check_out]
  @@ (IF m # NoData
        THEN [address |-> m[1].freeformAddress, azureMapsData |-> m]
        ELSE Opt(Truthy(Arg(a, "address")), "address", Arg(a, "address")))
  @@ Opt(Truthy(Arg(a, "confirmation")), "confirmation", Arg(a, "confirmation"))
  @@ Opt(Arg(a, "cost") # None, "cost", Arg(a, "cost"))

new_activity(a, m) ==
  [name |-> a.name]
  @@ Opt(Truthy(Arg(a, "description")), "description", Arg(a, "description"))
  @@ Opt(Truthy(Arg(a, "date")), "date", Arg(a, "date"))
  @@ Opt(Truthy(Arg(a, "time")), "time", Arg(a, "time"))
  @@ (IF m # NoData
        THEN [location |-> m[1].freeformAddress, azureMapsData |-> m]
        ELSE Opt(Truthy(Arg(a, "location")), "location", Arg(a, "location")))
  @@ Opt(Arg(a, "cost") # None, "cost", Arg(a, "cost"))
  @@ Opt(Truthy(Arg(a, "booking_confirmation")), "bookingConfirmation",
         Arg(a, "booking_confirmation"))

new_restaurant(a, m) ==
  [name |-> a.name]
  @@ Opt(Truthy(Arg(a, "cuisine")), "cuisine", Arg(a, "cuisine"))
  @@ Opt(Truthy(Arg(a, "date")), "date", Arg(a, "date"))
  @@ Opt(Truthy(Arg(a, "time")), "time", Arg(a, "time"))
  @@ (IF m # NoData
        THEN [address |-> m[1].freeformAddress, azureMapsData |-> m]
        ELSE Opt(Truthy(Arg(a, "address")), "address", Arg(a, "address")))
  @@ Opt(Truthy(Arg(a, "reservation_confirmation")), "reservationConfirmation",
         Arg(a, "reservation_confirmation"))
  @@ Opt(Arg(a, "cost") # None, "cost", Arg(a, "cost"))

\* the item an add_* call appends, given its verification results
NewItem(tool, a, m1, m2) ==
  CASE tool = "add_flight_to_itinerary" -> new_flight(a, m1, m2)
    [] tool = "add_accommodation_to_itinerary" -> new_accommodation(a, m1)
    [] tool = "add_activity_to_itinerary" -> new_activity(a, m1)
    [] tool = "add_restaurant_to_itinerary" -> new_restaurant(a, m1)

\* the dicts the tools return
NoResult == [status |-> "none"]

\* Success, but the message lacks the closing sentence
SuccessWithoutMarker == [status |-> "success"]

\* the success dict of update_itinerary; its message ends with the marker
Success == [status |-> "success", marker |-> "do not call this tool again"]

\* the error dicts
Error(kind) == [status |-> "error", error_type |-> kind]

\* locals of a tool call before its first statement
NoLocals == [items |-> <<>>, item |-> EmptyDict, existing |-> EmptyDict, tag |-> -1]

\* keyword argument of update_itinerary -> key of the stored document
FieldOf(k) ==
  CASE k = "start_date" -> "startDate"
    [] k = "end_date" -> "endDate"
    [] k = "profile_id" -> "profileId"
    [] OTHER -> k

\* update_itinerary, lines 310-330: "ok", or the reason of the validation error
ValidateDates(existing, args) ==
  LET sd == Arg(args, "start_date")
      ed == Arg(args, "end_date")
      start == IF Truthy(sd) THEN sd ELSE existing.startDate
      end == IF Truthy(ed) THEN ed ELSE existing.endDate
  IN IF ~(Truthy(sd) \/ Truthy(ed)) THEN "ok"
     ELSE IF ~IsIsoDate(start) \/ ~IsIsoDate(end) THEN "format"
     ELSE IF DayOf(start) >= DayOf(end) THEN "order"
     ELSE "ok"

\* BuildPayload, but the fields whose argument was omitted are reset
BuildPayloadResettingOmitted(existing, args, t) ==
  [f \in DOMAIN existing |->
     IF f = "updatedAt" THEN t
     ELSE IF \E k \in DOMAIN args : FieldOf(k) = f /\ args[k] # None
       THEN args[CHOOSE k \in DOMAIN args : FieldOf(k) = f]
       ELSE IF f \in {"id", "userId", "etag"} THEN existing[f] ELSE None]

\* update_itinerary, lines 332-361: the payload built from the document read
BuildPayload(existing, args, t) ==
  [f \in DOMAIN existing |->
     IF f = "updatedAt" THEN t
     ELSE IF \E k \in DOMAIN args : FieldOf(k) = f /\ args[k] # None
       THEN args[CHOOSE k \in DOMAIN args : FieldOf(k) = f]
       ELSE existing[f]]

\* the keyword arguments with which a tool call reaches update_itinerary
UpdateArgs(p) ==
  IF call[p].tool = "update_itinerary" THEN call[p].args
  ELSE [x \in {ListOf(call[p].tool)} |-> local[p].items]

\* return from the tool with dict r; the call's frame is discarded
Return(p, r) ==
  /\ result' = [result EXCEPT ![p] = r]
  /\ pc' = [pc EXCEPT ![p] = "idle"]
  /\ local' = [local EXCEPT ![p] = NoLocals]
  /\ applied' = IF r.status = "success" /\ call[p].tool \in AddTools
                  THEN applied (+) SetToBag({[tool |-> call[p].tool,
                                              args |-> call[p].args,
                                              item |-> local[p].item]})
                  ELSE applied

\* the language model calls one of the add_* tools
add_to_itinerary(p) ==
  /\ pc[p] = "idle"
  /\ ncalls < MaxCalls
  /\ \E id \in ItineraryIds, r \in AddRequests :
       call' = [call EXCEPT ![p] = [tool |-> r.tool, itinerary_id |-> id,
                                    args |-> r.args]]
  /\ pc' = [pc EXCEPT ![p] = "get"]
  /\ local' = [local EXCEPT ![p] = NoLocals]
  /\ result' = [result EXCEPT ![p] = NoResult]
  /\ ncalls' = ncalls + 1
  /\ UNCHANGED <<db, now, applied>>
  /\ UNCHANGED notItin

\* the language model calls update_itinerary
update_itinerary(p) ==
  /\ pc[p] = "idle"
  /\ ncalls < MaxCalls
  /\ \E id \in ItineraryIds, u \in UpdateRequests :
       call' = [call EXCEPT ![p] = [tool |-> "update_itinerary",
                                    itinerary_id |-> id, args |-> u]]
  /\ pc' = [pc EXCEPT ![p] = "update_read"]
  /\ local' = [local EXCEPT ![p] = NoLocals]
  /\ result' = [result EXCEPT ![p] = NoResult]
  /\ ncalls' = ncalls + 1
  /\ UNCHANGED <<db, now, applied>>
  /\ UNCHANGED notItin

\* get_itinerary, but the add_* tool goes on after an error result
get_itineraryIgnoringError(p) ==
  /\ pc[p] = "get"
  /\ \/ /\ call[p].itinerary_id \notin DOMAIN db
        /\ local' = [local EXCEPT ![p].items = <<>>]
     \/ /\ call[p].itinerary_id \in DOMAIN db
        /\ LET itinerary == db[call[p].itinerary_id]
           IN local' = [local EXCEPT ![p].items = itinerary[ListOf(call[p].tool)],
                                     ![p].tag = itinerary.etag]
  /\ pc' = [pc EXCEPT ![p] = "verify"]
  /\ UNCHANGED <<db, now, call, ncalls, result, applied>>
  /\ UNCHANGED notItin

\* get_itinerary as the first statement of an add_* tool
get_itinerary(p) ==
  /\ pc[p] = "get"
  /\ \/ Return(p, Error("database_error"))
     \/ /\ call[p].itinerary_id \notin DOMAIN db
        /\ Return(p, Error("not_found"))
     \/ /\ call[p].itinerary_id \in DOMAIN db
        /\ LET itinerary == db[call[p].itinerary_id]
           IN local' = [local EXCEPT ![p].items = itinerary[ListOf(call[p].tool)],
                                     ![p].tag = itinerary.etag]
        /\ pc' = [pc EXCEPT ![p] = "verify"]
        /\ UNCHANGED <<result, applied>>
  /\ UNCHANGED <<db, now, call, ncalls>>
  /\ UNCHANGED notItin

\* add_item, but the new item is put in front of the list
add_itemInFront(p) ==
  /\ pc[p] = "verify"
  /\ \E m1 \in verify_location_with_azure_maps,
        m2 \in verify_location_with_azure_maps :
       /\ call[p].tool # "add_flight_to_itinerary" => m2 = NoData
       /\ LET new == NewItem(call[p].tool, call[p].args, m1, m2)
          IN local' = [local EXCEPT ![p].item = new,
                                    ![p].items = <<new>> \o local[p].items]
  /\ pc' = [pc EXCEPT ![p] = "update_read"]
  /\ UNCHANGED <<db, now, call, result, ncalls, applied>>
  /\ UNCHANGED notItin

\* location verification, building the new item and appending it to the
\* list that get_itinerary returned
add_item(p) ==
  /\ pc[p] = "verify"
  /\ \E m1 \in verify_location_with_azure_maps,
        m2 \in verify_location_with_azure_maps :
       /\ call[p].tool # "add_flight_to_itinerary" => m2 = NoData
       /\ LET new == NewItem(call[p].tool, call[p].args, m1, m2)
          IN local' = [local EXCEPT ![p].item = new,
                                    ![p].items = Append(local[p].items, new)]
  /\ pc' = [pc EXCEPT ![p] = "update_read"]
  /\ UNCHANGED <<db, now, call, result, ncalls, applied>>
  /\ UNCHANGED notItin

\* update_itinerary up to the upsert: read_item, date validation, payload
update_itinerary_read(p) ==
  /\ pc[p] = "update_read"
  /\ \/ /\ Return(p, Error("database_error"))
        /\ UNCHANGED now
     \/ /\ call[p].itinerary_id \notin DOMAIN db
        /\ Return(p, Error("not_found"))
        /\ UNCHANGED now
     \/ /\ call[p].itinerary_id \in DOMAIN db
        /\ LET existing == db[call[p].itinerary_id]
           IN IF ValidateDates(existing, UpdateArgs(p)) # "ok"
                THEN /\ Return(p, Error("validation_error"))
                     /\ UNCHANGED now
                ELSE /\ local' = [local EXCEPT
                            ![p].existing = BuildPayload(existing, UpdateArgs(p), now + 1),
                            ![p].tag = IF call[p].tool = "update_itinerary"
                                         THEN existing.etag ELSE @]
                     /\ now' = now + 1
                     /\ pc' = [pc EXCEPT ![p] = "update_upsert"]
                     /\ UNCHANGED <<result, applied>>
  /\ UNCHANGED <<db, call, ncalls>>
  /\ UNCHANGED notItin

\* container.read_item(item=itinerary_id, ...) of a stored document
read_item(id) == db[id]

\* update_itinerary_upsert, but the stored document keeps the etag of the body
update_itinerary_upsertKeepingEtag(p) ==
  /\ pc[p] = "update_upsert"
  /\ \/ /\ Return(p, Error("database_error"))
        /\ UNCHANGED db
     \/ /\ db' = [db EXCEPT ![call[p].itinerary_id] = local[p].existing]
        /\ Return(p, Success)
  /\ UNCHANGED <<now, call, ncalls>>
  /\ UNCHANGED notItin

\* update_itinerary: container.upsert_item(body=existing) and the return
update_itinerary_upsert(p) ==
  /\ pc[p] = "update_upsert"
  /\ \/ /\ Return(p, Error("database_error"))
        /\ UNCHANGED db
     \/ /\ db' = [db EXCEPT ![call[p].itinerary_id] =
                     [local[p].existing EXCEPT !.etag = db[call[p].itinerary_id].etag + 1]]
        /\ Return(p, Success)
  /\ UNCHANGED <<now, call, ncalls>>
  /\ UNCHANGED notItin

InitItin ==
  /\ db = [id \in {"it1"} |-> InitialItinerary]
  /\ now = 0
  /\ pc = [p \in Procs |-> "idle"]
  /\ call = [p \in Procs |-> [tool |-> "none", itinerary_id |-> "it1", args |-> EmptyDict]]
  /\ local = [p \in Procs |-> NoLocals]
  /\ result = [p \in Procs |-> NoResult]
  /\ ncalls = 0
  /\ applied = EmptyBag

NextItin ==
  \E p \in Procs :
    \/ add_to_itinerary(p)
    \/ update_itinerary(p)
    \/ get_itinerary(p)
    \/ add_item(p)
    \/ update_itinerary_read(p)
    \/ update_itinerary_upsert(p)

\* ------------------------------------------------------------------------
\* Part II - the supervisor and its delegation tools
\* ------------------------------------------------------------------------
\* "recursion_limit": 15 of the chat endpoints
RecursionLimit == 15

\* the supervisor's tools, each wrapping one specialist agent
SupervisorTools == {"find_activities", "find_flights", "find_hotels",
                    "itinerary_operations"}

\* request texts the supervisor's language model may pass to a tool
RequestTexts == {"find flights JFK to NRT June 1", "show me cheaper options"}

\* final texts a specialist agent may answer with
SpecialistReplies == {"reply 1", "reply 2"}

NoCall == [tool |-> "none", request |-> ""]
Pairs == SupervisorTools \X RequestTexts

\* checkpointer.list(config): the thread's checkpoints, newest first
ListCheckpoints == checkpoints

\* the messages channel of the thread's latest checkpoint
LatestMessages ==
  IF ListCheckpoints = <<>> THEN <<>> ELSE ListCheckpoints[1].messages

\* GET /threads/{thread_id}/messages: the messages of checkpoints[0],
\* without system messages
get_thread_messages == SelectSeq(LatestMessages, LAMBDA m : m # "system")

\* SaveCheckpoint, but the listing returns the oldest checkpoint first
SaveCheckpointOldestFirst(source, messages) ==
  /\ supMessages' = messages
  /\ checkpoints' = Append(checkpoints,
        [step |-> IF checkpoints = <<>> THEN -1
                  ELSE checkpoints[Len(checkpoints)].step + 1,
         source |-> source, messages |-> messages])

\* the run saves a checkpoint of its channels after the input and after
\* every superstep; its step number follows the one the run loaded
SaveCheckpoint(source, messages) ==
  /\ supMessages' = messages
  /\ checkpoints' = <<[step |-> IF checkpoints = <<>> THEN -1
                                ELSE Head(checkpoints).step + 1,
                       source |-> source, messages |-> messages]>>
                    \o checkpoints

\* a chat request starts a supervisor run
chat_completions ==
  /\ supPc = "idle"
  /\ Len(checkpoints) < MaxCheckpoints
  /\ SaveCheckpoint("input", Append(LatestMessages, "human"))
  /\ supPc' = "model"
  /\ supSteps' = 0
  /\ toolCall' = NoCall
  /\ toolResult' = None
  /\ delegated' = [x \in Pairs |-> 0]
  /\ specialistRuns' = [x \in Pairs |-> 0]
  /\ supResponse' = "none"
  /\ UNCHANGED notSup

\* the model node: the language model answers, or calls one of the tools
supervisor_model ==
  /\ supPc = "model"
  /\ supSteps < RecursionLimit
  /\ supSteps' = supSteps + 1
  /\ \/ /\ supPc' = "idle"
        /\ supResponse' = "assistant message"
        /\ toolCall' = NoCall
     \/ /\ \E t \in SupervisorTools, q \in RequestTexts :
             toolCall' = [tool |-> t, request |-> q]
        /\ supPc' = "tools"
        /\ UNCHANGED supResponse
  /\ SaveCheckpoint("loop", Append(supMessages, "ai"))
  /\ UNCHANGED <<toolResult, delegated, specialistRuns>>
  /\ UNCHANGED notSup

\* supervisor_limit, but the run stops with a normal response
supervisor_limitSilent ==
  /\ supPc \in {"model", "tools"}
  /\ supSteps >= RecursionLimit
  /\ supPc' = "idle"
  /\ supResponse' = "assistant message"
  /\ UNCHANGED <<supSteps, toolCall, toolResult, delegated, specialistRuns,
                 supMessages, checkpoints>>
  /\ UNCHANGED notSup

\* the run needs another superstep after the recursion limit: ainvoke raises,
\* the endpoint answers HTTP 500
supervisor_limit ==
  /\ supPc \in {"model", "tools"}
  /\ supSteps >= RecursionLimit
  /\ supPc' = "idle"
  /\ supResponse' = "HTTP 500"
  /\ UNCHANGED <<supSteps, toolCall, toolResult, delegated, specialistRuns,
                 supMessages, checkpoints>>
  /\ UNCHANGED notSup

\* body shared by the four delegation tools: invoke the specialist agent with
\* the request as its only message and return the text of its last message
Delegate(tool) ==
  /\ supPc = "tools"
  /\ supSteps < RecursionLimit
  /\ toolCall.tool = tool
  /\ LET x == <<tool, toolCall.request>>
     IN /\ delegated' = [delegated EXCEPT ![x] = @ + 1]
        /\ specialistRuns' = [specialistRuns EXCEPT ![x] = @ + 1]
        /\ \E r \in SpecialistReplies : toolResult' = r
  /\ SaveCheckpoint("loop", Append(supMessages, "tool"))
  /\ supSteps' = supSteps + 1
  /\ supPc' = "model"
  /\ UNCHANGED <<toolCall, supResponse>>
  /\ UNCHANGED notSup

find_flights == Delegate("find_flights")
find_hotels == Delegate("find_hotels")
find_activities == Delegate("find_activities")
itinerary_operations == Delegate("itinerary_operations")

InitSup ==
  /\ supPc = "idle"
  /\ supSteps = 0
  /\ toolCall = NoCall
  /\ toolResult = None
  /\ delegated = [x \in Pairs |-> 0]
  /\ specialistRuns = [x \in Pairs |-> 0]
  /\ supResponse = "none"
  /\ supMessages = <<>>
  /\ checkpoints = <<>>

NextSup ==
  \/ chat_completions
  \/ supervisor_model
  \/ supervisor_limit
  \/ find_flights
  \/ find_hotels
  \/ find_activities
  \/ itinerary_operations

\* ------------------------------------------------------------------------
\* Part III - the approval graph on a checkpointed thread
\* ------------------------------------------------------------------------
\* concurrent request handlers of one thread_id
Handlers == {"h1", "h2"}

\* message and decision texts a client may send; an empty text is modelled
\* on the websocket endpoints, which check for it
Texts == {"approve", "show me cheaper options"}
TextsVia(via) == IF via = "ws" THEN Texts \cup {""} ELSE Texts

\* the channels of State(MessagesState): messages, llm_output, decision
Channels == {"messages", "llm_output", "decision"}
EmptyValues == [messages |-> <<>>, llm_output |-> None, decision |-> None]

\* a message that has not been given an id yet
Message(type, content) == [id |-> 0, type |-> type, content |-> content]

\* the reducer of the messages channel: a message whose id is already in the
\* list replaces that entry, any other message is appended under a fresh id
RECURSIVE add_messages(_, _)
add_messages(left, right) ==
  IF right = <<>> THEN left
  ELSE LET m == Head(right)
           at == {i \in DOMAIN left : left[i].id = m.id}
       IN IF m.id # 0 /\ at # {}
            THEN add_messages([left EXCEPT ![CHOOSE i \in at : TRUE] = m], Tail(right))
            ELSE add_messages(Append(left, [m EXCEPT !.id = Len(left) + 1]), Tail(right))

\* ApplyUpdate, but the messages of the update are concatenated to the list
ApplyUpdateConcatenating(values, update) ==
  [c \in Channels |->
     IF c \notin DOMAIN update THEN values[c]
     ELSE IF c = "messages" THEN values.messages \o update.messages
     ELSE update[c]]

\* a node's update applied to the channels; keys that are no channel of
\* State are dropped
ApplyUpdate(values, update) ==
  [c \in Channels |->
     IF c \notin DOMAIN update THEN values[c]
     ELSE IF c = "messages" THEN add_messages(values.messages, update.messages)
     ELSE update[c]]

\* human_approval, but the rejection branch does not append the feedback
human_approvalDroppingFeedback(state, input) ==
  IF input = "approve"
    THEN [goto |-> "approved_path", update |-> [input |-> "approved"]]
    ELSE [goto |-> "rejected_path", update |-> [input |-> "rejected"]]

\* human_approval after interrupt() returned input: the Command it returns
human_approval(state, input) ==
  IF input = "approve"
    THEN [goto |-> "approved_path", update |-> [input |-> "approved"]]
    ELSE [goto |-> "rejected_path",
          update |-> [input |-> "rejected",
                      messages |-> Append(state.messages, Message("human", input))]]

\* approved_node and rejected_node return the state they were given
approved_node(state) == state
rejected_node(state) == state

\* Edge, but flight_agent is wired to END
EdgeSkippingApproval(node) ==
  CASE node = "flight_agent" -> <<>>
    [] node = "approved_path" -> <<>>
    [] node = "rejected_path" -> <<"flight_agent">>

\* the static edges of builder
Edge(node) ==
  CASE node = "flight_agent" -> <<"human_approval">>
    [] node = "approved_path" -> <<>>
    [] node = "rejected_path" -> <<"flight_agent">>

\* the payload human_approval passes to interrupt()
InterruptPayload(state) ==
  [question |-> "Do you approve the following output?",
   messages |-> state.messages]

NoCheckpoint ==
  [id |-> 0, values |-> EmptyValues, next |-> <<>>, interrupts |-> {},
   resume |-> <<>>]
NoRequest == [no |-> 0, kind |-> "none", via |-> "http", text |-> ""]
NoRun == [id |-> 0, values |-> EmptyValues, next |-> <<>>, resume |-> <<>>]
NoResponse == [status |-> "none", response |-> "", interrupt |-> <<>>, events |-> <<>>]

\* GET /thread/{thread_id}
get_thread_state == [state |-> store.values, next_steps |-> store.next]

\* PutCheckpoint, but the pending writes of the previous checkpoint are
\* carried over to the new one
PutCheckpointKeepingWrites(h, values, next) ==
  /\ store' = [id |-> store.id + 1, values |-> values, next |-> next,
               interrupts |-> store.interrupts, resume |-> store.resume]
  /\ hloc' = [hloc EXCEPT ![h] = [id |-> store.id + 1, values |-> values,
                                  next |-> next, resume |-> <<>>]]

\* the run of handler h saves a checkpoint: it becomes the thread's latest,
\* without pending writes
PutCheckpoint(h, values, next) ==
  /\ store' = [id |-> store.id + 1, values |-> values, next |-> next,
               interrupts |-> {}, resume |-> <<>>]
  /\ hloc' = [hloc EXCEPT ![h] = [id |-> store.id + 1, values |-> values,
                                  next |-> next, resume |-> <<>>]]

\* RecordInterrupt, but the interrupt is not saved
RecordInterruptLost(h) == store

\* the run of handler h suspends in human_approval: the interrupt is saved as
\* a pending write of the checkpoint the run is at
RecordInterrupt(h) ==
  IF store.id = hloc[h].id
    THEN [store EXCEPT !.interrupts =
            {[checkpoint |-> hloc[h].id, node |-> "human_approval",
              value |-> InterruptPayload(hloc[h].values)]}]
    ELSE store

\* event sent on the websocket for a stream chunk (none over HTTP)
Emit(h, e) == IF hreq[h].via = "ws" THEN Append(hresp[h].events, e) ELSE hresp[h].events

\* the handler answers and is free for the next request
Answer(h, r) ==
  /\ hresp' = [hresp EXCEPT ![h] = r]
  /\ hpc' = [hpc EXCEPT ![h] = "idle"]

\* text of the last message, as the HTTP endpoints extract it
LastContent(messages) ==
  IF messages = <<>> THEN "No response" ELSE messages[Len(messages)].content

\* POST /chat/{thread_id} and /ws/chat: graph.ainvoke / graph.astream with
\* the user message as input.  The input is applied to the latest
\* checkpoint's values, pending tasks and writes of that checkpoint are
\* discarded, and the run starts at the entry point.
chat_endpoint(h) ==
  /\ hpc[h] = "idle"
  /\ nreq < MaxRequests
  /\ \E via \in {"http", "ws"} : \E text \in TextsVia(via) :
       /\ hreq' = [hreq EXCEPT ![h] = [no |-> nreq + 1, kind |-> "chat",
                                    via |-> via, text |-> text]]
       /\ IF via = "ws" /\ text = ""
            THEN /\ hresp' = [hresp EXCEPT ![h] =
                       [status |-> "error", response |-> "Message is required",
                        interrupt |-> <<>>, events |-> <<"error">>]]
                 /\ UNCHANGED <<store, hloc, hpc>>
            ELSE /\ PutCheckpoint(h, ApplyUpdate(store.values,
                                     [messages |-> <<Message("human", text)>>]),
                                  <<"flight_agent">>)
                 /\ hpc' = [hpc EXCEPT ![h] = "running"]
                 /\ hresp' = [hresp EXCEPT ![h] = NoResponse]
  /\ nreq' = nreq + 1
  /\ UNCHANGED delivered
  /\ UNCHANGED notThr

\* POST /resume/{thread_id} and /ws/resume: graph.ainvoke / graph.astream
\* with Command(resume=decision).  The resume value is saved as a pending
\* write of the latest checkpoint and the run continues with that
\* checkpoint's next steps; without any checkpoint the run raises.
resume_endpoint(h) ==
  /\ hpc[h] = "idle"
  /\ nreq < MaxRequests
  /\ \E via \in {"http", "ws"} : \E text \in TextsVia(via) :
       /\ hreq' = [hreq EXCEPT ![h] = [no |-> nreq + 1, kind |-> "resume",
                                    via |-> via, text |-> text]]
       /\ IF via = "ws" /\ text = ""
            THEN /\ hresp' = [hresp EXCEPT ![h] =
                       [status |-> "error", response |-> "Decision is required",
                        interrupt |-> <<>>, events |-> <<"error">>]]
                 /\ UNCHANGED <<store, hloc, hpc>>
            ELSE IF store.id = 0
            THEN /\ hresp' = [hresp EXCEPT ![h] =
                       [status |-> "error", response |-> "exception",
                        interrupt |-> <<>>,
                        events |-> IF via = "ws" THEN <<"error">> ELSE <<>>]]
                 /\ UNCHANGED <<store, hloc, hpc>>
            ELSE /\ store' = [store EXCEPT !.resume = <<text>>]
                 /\ hloc' = [hloc EXCEPT ![h] = [id |-> store.id, values |-> store.values,
                                                 next |-> store.next, resume |-> <<text>>]]
                 /\ hpc' = [hpc EXCEPT ![h] = "running"]
                 /\ hresp' = [hresp EXCEPT ![h] = NoResponse]
  /\ nreq' = nreq + 1
  /\ UNCHANGED delivered
  /\ UNCHANGED notThr

\* the run of handler h executes the node flight_agent
flight_agent(h) ==
  /\ hpc[h] = "running"
  /\ hloc[h].next = <<"flight_agent">>
  /\ \/ /\ PutCheckpoint(h, ApplyUpdate(hloc[h].values,
                [messages |-> Append(hloc[h].values.messages,
                                     Message("ai", "flight options"))]),
              Edge("flight_agent"))
        /\ hresp' = [hresp EXCEPT ![h].events = Emit(h, "node_update")]
        /\ UNCHANGED hpc
     \/ /\ Answer(h, [status |-> "error", response |-> "exception",
                      interrupt |-> <<>>, events |-> Emit(h, "error")])
        /\ UNCHANGED <<store, hloc>>
  /\ UNCHANGED <<hreq, nreq, delivered>>
  /\ UNCHANGED notThr

\* the websocket endpoints read the thread's state once the stream has
\* ended and send "complete" when it has no next step
AfterStream(h, events, next) ==
  IF hreq[h].via = "ws" /\ next = <<>> THEN Append(events, "complete") ELSE events

\* the websocket endpoints pass every entry of an update's messages to
\* message_to_dict, which raises on the feedback string of a rejection
StreamRaises(h, update) == hreq[h].via = "ws" /\ "messages" \in DOMAIN update

\* the run of handler h executes the node human_approval: interrupt() returns
\* the resume value of this run, or suspends the run.  When the websocket
\* endpoint raises on the node's update the stream is abandoned, with the
\* step's checkpoint saved or not.
human_approval_node(h) ==
  /\ hpc[h] = "running"
  /\ hloc[h].next = <<"human_approval">>
  /\ IF hloc[h].resume # <<>>
       THEN LET cmd == human_approval(hloc[h].values, hloc[h].resume[1])
            IN /\ delivered' = [delivered EXCEPT ![hloc[h].id] = Append(@, hloc[h].resume[1])]
               /\ IF StreamRaises(h, cmd.update)
                    THEN /\ \/ PutCheckpoint(h, ApplyUpdate(hloc[h].values, cmd.update),
                                             <<cmd.goto>>)
                            \/ UNCHANGED <<store, hloc>>
                         /\ Answer(h, [status |-> "error", response |-> "exception",
                                       interrupt |-> <<>>, events |-> Emit(h, "error")])
                    ELSE /\ PutCheckpoint(h, ApplyUpdate(hloc[h].values, cmd.update),
                                          <<cmd.goto>>)
                         /\ hresp' = [hresp EXCEPT ![h].events = Emit(h, "node_update")]
                         /\ UNCHANGED hpc
       ELSE /\ store' = RecordInterrupt(h)
            /\ Answer(h, [status |-> "ok", response |-> "Approval needed",
                          interrupt |-> <<InterruptPayload(hloc[h].values)>>,
                          events |-> AfterStream(h, Emit(h, "interrupt"),
                                                 RecordInterrupt(h).next)])
            /\ UNCHANGED <<hloc, delivered>>
  /\ UNCHANGED <<hreq, nreq>>
  /\ UNCHANGED notThr

\* path_node, but rejected_path is wired to itself
path_nodeRepeating(h) ==
  /\ hpc[h] = "running"
  /\ hloc[h].next \in {<<"approved_path">>, <<"rejected_path">>}
  /\ LET node == hloc[h].next[1]
         out == IF node = "approved_path" THEN approved_node(hloc[h].values)
                ELSE rejected_node(hloc[h].values)
     IN PutCheckpoint(h, ApplyUpdate(hloc[h].values, out),
                      IF node = "rejected_path" THEN <<node>> ELSE Edge(node))
  /\ hresp' = [hresp EXCEPT ![h].events = Emit(h, "node_update")]
  /\ UNCHANGED <<hpc, hreq, nreq, delivered>>
  /\ UNCHANGED notThr

\* the run of handler h executes approved_path or rejected_path
path_node(h) ==
  /\ hpc[h] = "running"
  /\ hloc[h].next \in {<<"approved_path">>, <<"rejected_path">>}
  /\ LET node == hloc[h].next[1]
         out == IF node = "approved_path" THEN approved_node(hloc[h].values)
                ELSE rejected_node(hloc[h].values)
     IN PutCheckpoint(h, ApplyUpdate(hloc[h].values, out), Edge(node))
  /\ hresp' = [hresp EXCEPT ![h].events = Emit(h, "node_update")]
  /\ UNCHANGED <<hpc, hreq, nreq, delivered>>
  /\ UNCHANGED notThr

\* the run of handler h has no next step: the endpoint answers with the
\* last message; the websocket endpoints send "complete" when the thread's
\* state has no next step
run_done(h) ==
  /\ hpc[h] = "running"
  /\ hloc[h].next = <<>>
  /\ Answer(h, [status |-> "ok", response |-> LastContent(hloc[h].values.messages),
                interrupt |-> <<>>,
                events |-> IF get_thread_state.next_steps = <<>>
                             THEN Emit(h, "complete") ELSE hresp[h].events])
  /\ UNCHANGED <<store, hloc, hreq, nreq, delivered>>
  /\ UNCHANGED notThr

InitThr ==
  /\ store = NoCheckpoint
  /\ hpc = [h \in Handlers |-> "idle"]
  /\ hreq = [h \in Handlers |-> NoRequest]
  /\ hloc = [h \in Handlers |-> NoRun]
  /\ hresp = [h \in Handlers |-> NoResponse]
  /\ nreq = 0
  /\ delivered = [i \in 0..(4 * MaxRequests) |-> <<>>]

NextThr ==
  \E h \in Handlers :
    \/ chat_endpoint(h)
    \/ resume_endpoint(h)
    \/ flight_agent(h)
    \/ human_approval_node(h)
    \/ path_node(h)
    \/ run_done(h)

\* ------------------------------------------------------------------------
\* Part IV - the approval step factory of src/agent/graph.py
\* ------------------------------------------------------------------------
\* step names an approval step may be built with
Dests == {"flights_approved", "hotel_agent", "flight_agent"}

\* values a client may resume the step with
ResumeValues == {"approve", "Approve", "APPROVE", " approve", "approved", "",
                 "yes", "show me cheaper options"}

NoCommand == [goto |-> "none", update |-> EmptyDict]

\* make_human_approval, but the comparison ignores case
make_human_approvalIgnoringCase(approve_dest, reject_dest, decision) ==
  IF decision \in {"approve", "Approve", "APPROVE"}
    THEN [goto |-> approve_dest, update |-> [decision |-> "approved"]]
    ELSE [goto |-> reject_dest, update |-> [decision |-> "rejected"]]

\* the Command returned by the step make_human_approval(approve_dest,
\* reject_dest) builds, once interrupt() has returned decision
make_human_approval(approve_dest, reject_dest, decision) ==
  IF decision = "approve"
    THEN [goto |-> approve_dest, update |-> [decision |-> "approved"]]
    ELSE [goto |-> reject_dest, update |-> [decision |-> "rejected"]]

\* the built step is resumed with approval.decision
approval_step ==
  /\ approval.command = NoCommand
  /\ LET cmd == make_human_approval(approval.approve_dest, approval.reject_dest,
                                    approval.decision)
     IN approval' = [approval EXCEPT !.command = cmd,
                                     !.values = ApplyUpdate(@, cmd.update)]
  /\ UNCHANGED notApproval

\* no approval step is under test
InitFn ==
  approval = [approve_dest |-> "flights_approved", reject_dest |-> "flight_agent",
              decision |-> "approve", command |-> NoCommand,
              values |-> EmptyValues]

\* any approval step the factory can build, about to be resumed with any value
InitApproval ==
  approval \in [approve_dest : Dests, reject_dest : Dests,
                decision : ResumeValues, command : {NoCommand},
                values : {EmptyValues}]

NextApproval == approval_step

\* ------------------------------------------------------------------------
\* Part V - AmadeusAuth.get_token
\* ------------------------------------------------------------------------
\* callers of get_token on one AmadeusAuth object
Callers == {"a1", "a2"}

\* the clock at construction, and the seconds it advances by
StartTime == 1000
TickSeconds == 30

\* access_token and expires_in values of a token response
AccessTokens == {"tokA", "tokB"}
ExpiresInValues == {30, 90, 150}

\* no call has returned yet
NoReturn == [value |-> None, cached |-> FALSE, called |-> 0, at |-> 0, expiry |-> 0]

\* Cached, but a token is still served at the second of its expiry
CachedAtExpiry == Truthy(token) /\ clock <= expiry

\* self.token and time.time() < self.expiry
Cached == Truthy(token) /\ clock < expiry

\* get_token: returns the cached token, or posts to the token endpoint
get_token(c) ==
  /\ apc[c] = "idle"
  /\ IF Cached
       THEN /\ aret' = [aret EXCEPT ![c] = [value |-> token, cached |-> TRUE,
                                            called |-> clock, at |-> clock,
                                            expiry |-> expiry]]
            /\ UNCHANGED apc
       ELSE /\ apc' = [apc EXCEPT ![c] = "fetching"]
            /\ aret' = [aret EXCEPT ![c].called = clock]
  /\ UNCHANGED <<token, expiry, clock>>
  /\ UNCHANGED notAuth

\* the token endpoint answers 200: the token and its expiry are stored
fetch_response(c) ==
  /\ apc[c] = "fetching"
  /\ \E access_token \in AccessTokens, expires_in \in ExpiresInValues :
       /\ token' = access_token
       /\ expiry' = clock + expires_in - 60
       /\ aret' = [aret EXCEPT ![c] = [value |-> access_token, cached |-> FALSE,
                                       called |-> aret[c].called, at |-> clock,
                                       expiry |-> clock + expires_in - 60]]
  /\ apc' = [apc EXCEPT ![c] = "idle"]
  /\ UNCHANGED clock
  /\ UNCHANGED notAuth

\* the post times out or raise_for_status raises: the call raises
fetch_error(c) ==
  /\ apc[c] = "fetching"
  /\ aret' = [aret EXCEPT ![c] = [value |-> "raised", cached |-> FALSE,
                                  called |-> aret[c].called, at |-> clock,
                                  expiry |-> expiry]]
  /\ apc' = [apc EXCEPT ![c] = "idle"]
  /\ UNCHANGED <<token, expiry, clock>>
  /\ UNCHANGED notAuth

\* time passes
Tick ==
  /\ clock < StartTime + MaxTicks * TickSeconds
  /\ clock' = clock + TickSeconds
  /\ UNCHANGED <<token, expiry, apc, aret>>
  /\ UNCHANGED notAuth

\* AmadeusAuth.__init__
InitAuth ==
  /\ token = None
  /\ expiry = 0
  /\ clock = StartTime
  /\ apc = [c \in Callers |-> "idle"]
  /\ aret = [c \in Callers |-> NoReturn]

NextAuth ==
  \/ \E c \in Callers : get_token(c)
  \/ \E c \in Callers : fetch_response(c)
  \/ \E c \in Callers : fetch_error(c)
  \/ Tick

\* ------------------------------------------------------------------------
\* Specifications
\* ------------------------------------------------------------------------
vars == <<itinVars, supVars, thrVars, fnVars, authVars>>

Init == InitItin /\ InitSup /\ InitThr /\ InitFn /\ InitAuth

\* every approval step the factory can build, beside the other parts at rest
InitApprovalSteps == InitItin /\ InitSup /\ InitThr /\ InitApproval /\ InitAuth

\* approval steps built by the factory, resumed once
SpecApproval == InitApprovalSteps /\ [][NextApproval]_vars

\* calls of get_token on one AmadeusAuth object while time passes
SpecAuth == Init /\ [][NextAuth]_vars

\* concurrent tool calls against the itinerary container
Next == NextItin
Spec == Init /\ [][Next]_vars

\* runs of the supervisor agent
SpecSupervisor == Init /\ [][NextSup]_vars

\* a step of a supervisor run that has started
SupervisorRun ==
  \/ supervisor_model
  \/ supervisor_limit
  \/ find_flights
  \/ find_hotels
  \/ find_activities
  \/ itinerary_operations

\* runs of the supervisor agent; the event loop keeps running a started run
SpecSupervisorFair == SpecSupervisor /\ WF_vars(SupervisorRun)

\* requests to the endpoints of one thread of the approval graph
SpecThread == Init /\ [][NextThr]_vars

\* ------------------------------------------------------------------------
\* Claims about the itinerary tools
\* ------------------------------------------------------------------------
\* the stored list that tool appends to
StoredList(tool) == db["it1"][ListOf(tool)]

\* item x occurs in sequence s
Occurs(x, s) == \E i \in DOMAIN s : s[i] = x

\* every item an add_* request can produce, over all verification outcomes
ItemsOf(r) ==
  {NewItem(r.tool, r.args, m1, m2) :
     m1 \in verify_location_with_azure_maps,
     m2 \in verify_location_with_azure_maps}

\* both tool calls ran one add_* call on the same list and returned success
TwoAddsSucceeded ==
  /\ \A p \in Procs : /\ pc[p] = "idle"
                      /\ result[p].status = "success"
                      /\ call[p].tool \in AddTools
                      /\ call[p].itinerary_id = "it1"
  /\ call["p1"].tool = call["p2"].tool

\* C1: when two add_* calls on the same list of the same itinerary have both
\* returned success, the stored list holds the items of both (none is lost).
C1_NoAdditionLost ==
  TwoAddsSucceeded =>
    /\ Len(StoredList(call["p1"].tool)) = 2
    /\ \A x \in BagToSet(applied) : Occurs(x.item, StoredList(x.tool))

\* tool call p performs its upsert in this step
Upserts(p) == pc[p] = "update_upsert" /\ db' # db

\* tool call p leaves update_itinerary in this step
LeavesUpdate(p) == pc[p] = "update_upsert" /\ pc'[p] = "idle"

\* the document changed since tool call p first read it
Stale(p) == local[p].tag # db[call[p].itinerary_id].etag

\* C2: an update whose token (the version the call first read) is no longer
\* the stored document's version fails with a conflict and leaves the stored
\* document unchanged.
C2_StaleUpdateConflicts ==
  [][\A p \in Procs :
       (LeavesUpdate(p) /\ Stale(p)) =>
         (db' = db /\ result'[p] = Error("conflict"))]_vars

\* C3: the write of an add_* call never overwrites another writer's
\* addition: every item of the stored list is still in it after the write.
C3_AddKeepsOtherAdditions ==
  [][\A p \in Procs :
       (Upserts(p) /\ call[p].tool \in AddTools) =>
         \A i \in DOMAIN StoredList(call[p].tool) :
           Occurs(StoredList(call[p].tool)[i], StoredList(call[p].tool)')]_vars

\* C4: one logical add request is applied at most once: however often the
\* same request is issued, its list holds at most one item for it.
C4_AtMostOncePerRequest ==
  \A r \in AddRequests :
    Cardinality({i \in DOMAIN StoredList(r.tool) :
                   StoredList(r.tool)[i] \in ItemsOf(r)}) <= 1

\* the add_* tools that verify one location and take its text from the caller
LocatedTools == AddTools \ {"add_flight_to_itinerary"}

\* the key of the item, and the argument, that hold the location text
AddressKey(tool) == IF tool = "add_activity_to_itinerary" THEN "location" ELSE "address"

\* tool call p builds its item in this step
BuildsItem(p) == pc[p] = "verify" /\ pc'[p] # "verify"

\* tool call p returns from a successful upsert in this step
Writes(p) ==
  pc[p] = "update_upsert" /\ pc'[p] = "idle" /\ result'[p].status = "success"

\* C18: for add_accommodation, add_activity and add_restaurant an
\* unavailable verification never fails the call: the item is built and the
\* call goes on to the write; an item without verified data carries the
\* caller's address/location text exactly when one was given; and the write
\* stores the list ending with that item.
C18_UnverifiedLocationStillWritten ==
  [][\A p \in Procs :
       call[p].tool \in LocatedTools =>
         /\ BuildsItem(p) =>
              LET item == local'[p].item
                  k == AddressKey(call[p].tool)
                  given == Arg(call[p].args, k)
              IN /\ pc'[p] = "update_read"
                 /\ result'[p] = result[p]
                 /\ local'[p].items = Append(local[p].items, item)
                 /\ item.name = call[p].args.name
                 /\ "azureMapsData" \notin DOMAIN item =>
                      IF Truthy(given)
                        THEN k \in DOMAIN item /\ item[k] = given
                        ELSE k \notin DOMAIN item
         /\ Writes(p) =>
              /\ StoredList(call[p].tool)' = local[p].items
              /\ local[p].items[Len(local[p].items)] = local[p].item]_vars

\* an accommodation was written without verified data, with the caller's
\* address
C18_Witness ==
  \E p \in Procs :
    /\ pc[p] = "idle"
    /\ result[p].status = "success"
    /\ call[p].tool = "add_accommodation_to_itinerary"
    /\ \E i \in DOMAIN db["it1"].accommodations :
         /\ "azureMapsData" \notin DOMAIN db["it1"].accommodations[i]
         /\ db["it1"].accommodations[i].address = "1 Caller St"

\* the document fields for which tool call p passes update_itinerary a value
Provided(p) ==
  {FieldOf(k) : k \in {x \in DOMAIN UpdateArgs(p) : UpdateArgs(p)[x] # None}}

\* the document fields update_itinerary must leave alone for tool call p
Omitted(p) ==
  DOMAIN db[call[p].itinerary_id] \ (Provided(p) \cup {"updatedAt", "etag"})

\* tool call p reads the document and builds its payload in this step
BuildsPayload(p) == pc[p] = "update_read" /\ pc'[p] = "update_upsert"

\* C19: update_itinerary changes only the fields it was given: the payload
\* it builds keeps, for every omitted field other than updatedAt, the value
\* of the document it read; the write stores that payload with the given
\* values; and a write to a document unchanged since the call read it
\* leaves every omitted field as it was.
C19_UpdateChangesOnlyProvidedFields ==
  [][\A p \in Procs :
       /\ BuildsPayload(p) =>
            \A f \in Omitted(p) :
              local'[p].existing[f] = db[call[p].itinerary_id][f]
       /\ Writes(p) =>
            /\ \A f \in DOMAIN local[p].existing \ {"etag"} :
                 db'[call[p].itinerary_id][f] = local[p].existing[f]
            /\ \A k \in DOMAIN UpdateArgs(p) :
                 db'[call[p].itinerary_id][FieldOf(k)] = UpdateArgs(p)[k]
            /\ ~Stale(p) =>
                 \A f \in Omitted(p) :
                   db'[call[p].itinerary_id][f] = db[call[p].itinerary_id][f]]_vars

\* an update of start_date and notes was written and the title is unchanged
C19_Witness ==
  \E p \in Procs :
    /\ pc[p] = "idle"
    /\ result[p].status = "success"
    /\ call[p].tool = "update_itinerary"
    /\ db["it1"].notes = "shorter"
    /\ db["it1"].startDate = "2025-06-05"
    /\ db["it1"].title = InitialItinerary.title
    /\ db["it1"].endDate = InitialItinerary.endDate

\* tool call p returns in this step
Returns(p) == pc[p] # "idle" /\ pc'[p] = "idle"

\* the result carries the sentence that tells the caller not to call again
Marked(r) == "marker" \in DOMAIN r /\ r.marker = "do not call this tool again"

\* C20: every write to the itinerary is made by a call that returns, in the
\* same step, a success result with the do-not-call-again marker; and a call
\* that returns an error result (not_found, validation_error or
\* database_error) carries no marker and leaves the container as it is.
C20_WritesAreMarkedErrorsWriteNothing ==
  [][/\ db' # db =>
          \E p \in Procs : /\ Returns(p)
                           /\ result'[p].status = "success"
                           /\ Marked(result'[p])
     /\ \A p \in Procs :
          /\ (Returns(p) /\ result'[p].status = "success") =>
               Marked(result'[p]) /\ db' # db
          /\ (Returns(p) /\ result'[p].status # "success") =>
               /\ result'[p].status = "error"
               /\ result'[p].error_type
                    \in {"not_found", "validation_error", "database_error"}
               /\ ~Marked(result'[p])
               /\ db' = db]_vars

\* one call has written and returned success, another has returned a
\* validation error
C20_Witness ==
  /\ db["it1"].updatedAt > 0
  /\ \E p, q \in Procs :
       /\ pc[p] = "idle" /\ result[p].status = "success" /\ Marked(result[p])
       /\ pc[q] = "idle" /\ result[q] = Error("validation_error")

\* the day ordinal of a flight's departure or arrival time
DayOfTime(t) ==
  CASE t = "2025-06-01T10:00" -> 1
    [] t = "2025-06-02T13:00" -> 2
    [] t = "2025-06-10T08:00" -> 10
    [] t = "2025-06-10T20:00" -> 10

\* the days recorded on the items of an itinerary document
ItemDays(doc) ==
  {DayOfTime(doc.flights[i].departure.time) : i \in DOMAIN doc.flights}
  \cup {DayOfTime(doc.flights[i].arrival.time) : i \in DOMAIN doc.flights}
  \cup {DayOf(doc.accommodations[i].checkIn) : i \in DOMAIN doc.accommodations}
  \cup {DayOf(doc.accommodations[i].checkOut) : i \in DOMAIN doc.accommodations}
  \cup {DayOf(doc.activities[i].date) :
          i \in {j \in DOMAIN doc.activities : "date" \in DOMAIN doc.activities[j]}}
  \cup {DayOf(doc.restaurants[i].date) :
          i \in {j \in DOMAIN doc.restaurants : "date" \in DOMAIN doc.restaurants[j]}}

\* C21: every date recorded on an item of a stored itinerary lies within
\* [startDate, endDate] of that itinerary.
C21_ItemDatesWithinTrip ==
  \A id \in DOMAIN db :
    \A x \in ItemDays(db[id]) :
      /\ DayOf(db[id].startDate) <= x
      /\ x <= DayOf(db[id].endDate)

ReadsForAdd(p) == pc[p] = "get" /\ pc'[p] # "get"

\* C26: when the read phase of an add_* call yields an error (not_found for
\* an itinerary that is not stored, or database_error), the call returns
\* that error at once, without building an item or reaching update_itinerary,
\* and the container is unchanged; otherwise it goes on with the stored list.
C26_AddReturnsReadError ==
  [][\A p \in Procs :
       ReadsForAdd(p) =>
         /\ db' = db
         /\ \/ /\ pc'[p] = "idle"
               /\ result'[p] \in {Error("not_found"), Error("database_error")}
               /\ result'[p] = Error("not_found")
                    => call[p].itinerary_id \notin DOMAIN db
               /\ local'[p] = NoLocals
               /\ applied' = applied
            \/ /\ pc'[p] = "verify"
               /\ call[p].itinerary_id \in DOMAIN db
               /\ result'[p] = result[p]
               /\ local'[p].items = StoredList(call[p].tool)]_vars

\* an add_* call for an itinerary that is not stored has returned not_found
C26_Witness ==
  \E p \in Procs :
    /\ pc[p] = "idle"
    /\ call[p].tool \in AddTools
    /\ call[p].itinerary_id = "missing"
    /\ result[p] = Error("not_found")
    /\ db["it1"] = InitialItinerary

\* C27: a successful add_* call whose itinerary no one else wrote since the
\* call read it appends exactly one item at the end of its list: the list
\* becomes the former list followed by the new item, and every other field
\* except updatedAt (and the container's etag) is unchanged.
C27_AddAppendsExactlyOne ==
  [][\A p \in Procs :
       (Writes(p) /\ call[p].tool \in AddTools /\ ~Stale(p)) =>
         LET old == db[call[p].itinerary_id]
             new == db'[call[p].itinerary_id]
             list == ListOf(call[p].tool)
         IN /\ new[list] = Append(old[list], local[p].item)
            /\ local[p].item \in ItemsOf([tool |-> call[p].tool, args |-> call[p].args])
            /\ \A f \in DOMAIN old \ {list, "updatedAt", "etag"} : new[f] = old[f]
            /\ DOMAIN new = DOMAIN old]_vars

\* two successive adds have grown one list by two, the first item first
C27_Witness ==
  /\ \A p \in Procs : pc[p] = "idle"
  /\ BagCardinality(applied) = 2
  /\ Len(db["it1"].flights) = 2
  /\ db["it1"].flights[1].flightNumber = "UA123"
  /\ db["it1"].flights[2].flightNumber = "AA150"
  /\ db["it1"].accommodations = <<>>

\* tool call p was invoked as update_itinerary with a date argument
SuppliesDate(p) ==
  /\ call[p].tool = "update_itinerary"
  /\ \E k \in {"start_date", "end_date"} :
       k \in DOMAIN call[p].args /\ call[p].args[k] # None

\* the start and end date update_itinerary compares for tool call p
EffectiveStart(p) ==
  IF Truthy(Arg(call[p].args, "start_date")) THEN call[p].args.start_date
  ELSE db[call[p].itinerary_id].startDate
EffectiveEnd(p) ==
  IF Truthy(Arg(call[p].args, "end_date")) THEN call[p].args.end_date
  ELSE db[call[p].itinerary_id].endDate

\* C28: an update_itinerary call with a date argument whose effective start
\* is not before its effective end returns an error and writes nothing, and
\* every successful call that supplies a date leaves valid dates with
\* startDate before endDate.
C28_DatesStayOrdered ==
  [][\A p \in Procs :
       SuppliesDate(p) =>
         /\ (/\ pc[p] = "update_read" /\ pc'[p] # "update_read"
              /\ call[p].itinerary_id \in DOMAIN db
              /\ DayOf(EffectiveStart(p)) >= DayOf(EffectiveEnd(p))) =>
              /\ pc'[p] = "idle"
              /\ result'[p].status = "error"
              /\ db' = db
         /\ Writes(p) =>
              /\ IsIsoDate(db'[call[p].itinerary_id].startDate)
              /\ IsIsoDate(db'[call[p].itinerary_id].endDate)
              /\ DayOf(db'[call[p].itinerary_id].startDate)
                   < DayOf(db'[call[p].itinerary_id].endDate)]_vars

\* ------------------------------------------------------------------------
\* Claims about the delegation tools
\* ------------------------------------------------------------------------
\* C5: within one run, a (tool, request) pair that was delegated, however
\* often, ran its specialist exactly once.
C5_DelegationIdempotent ==
  \A x \in Pairs : delegated[x] >= 1 => specialistRuns[x] = 1

\* the supervisor run executes a superstep in this step
SupStep == supSteps' = supSteps + 1

\* C14: in supervisor runs (which never suspend) every superstep appends
\* one checkpoint whose step number is the previous one plus 1, and the first
\* element of the newest-first listing, which GET /threads/{id}/messages
\* reads, is the checkpoint of the most recent step.
C14_CheckpointsAdvanceByOne ==
  [][/\ SupStep => Len(checkpoints') = Len(checkpoints) + 1
     /\ checkpoints' # checkpoints =>
          /\ Len(checkpoints') = Len(checkpoints) + 1
          /\ \A i \in 1..(Len(checkpoints') - 1) :
               checkpoints'[i].step = checkpoints'[i + 1].step + 1
          /\ \A i \in DOMAIN checkpoints :
               \E j \in DOMAIN checkpoints' : checkpoints'[j] = checkpoints[i]
          /\ ListCheckpoints'[1].messages = supMessages'
          /\ get_thread_messages' = supMessages']_vars

\* a second run has continued the numbering of the first
C14_Witness ==
  /\ Len(checkpoints) >= 5
  /\ checkpoints[1].source = "loop"
  /\ checkpoints[1].step = Len(checkpoints) - 2
  /\ \E i \in 2..(Len(checkpoints) - 1) : checkpoints[i].source = "input"

\* the supervisor run ends in this step
SupEnds == supPc # "idle" /\ supPc' = "idle"

\* C16: a supervisor run executes at most RecursionLimit supersteps; a run
\* that needs another one after that ends with an error answer (HTTP 500),
\* any other run ends with a normal response; and every run ends.
C16_RunsStopAtRecursionLimit ==
  /\ [](supSteps <= RecursionLimit)
  /\ [][SupEnds =>
          IF supSteps >= RecursionLimit
            THEN supResponse' = "HTTP 500" /\ supSteps' = supSteps
            ELSE supResponse' = "assistant message"]_vars
  /\ (supPc # "idle" ~> supPc = "idle")

\* a run was ended by the recursion limit
C16_Witness ==
  /\ supPc = "idle"
  /\ supSteps = RecursionLimit
  /\ supResponse = "HTTP 500"
  /\ Len(checkpoints) = RecursionLimit + 1

\* ------------------------------------------------------------------------
\* Claims about suspend and resume on a thread
\* ------------------------------------------------------------------------
\* handler h receives a request in this step
Receives(h) == nreq' = nreq + 1 /\ hreq'[h].no = nreq'

\* handler h receives a resume request that reaches the graph
Resumes(h) ==
  /\ Receives(h)
  /\ hreq'[h].kind = "resume"
  /\ ~(hreq'[h].via = "ws" /\ hreq'[h].text = "")

\* handler h receives a chat message that reaches the graph
Chats(h) ==
  /\ Receives(h)
  /\ hreq'[h].kind = "chat"
  /\ ~(hreq'[h].via = "ws" /\ hreq'[h].text = "")

\* an interrupt is pending on the thread's latest checkpoint
Pending == store.interrupts # {}

\* no request of the thread is being served
Quiescent == \A h \in Handlers : hpc[h] = "idle"

\* the thread is new, or its run has terminated: nothing awaits a resume
NothingToResume == Quiescent /\ ~Pending /\ store.next = <<>>

\* C6: a resume request for a thread with no pending interrupt (a new thread
\* or one whose run has terminated) is rejected with an error and changes
\* nothing in the thread's checkpoint.
C6_ResumeWithoutInterruptRejected ==
  [][\A h \in Handlers :
       (Resumes(h) /\ NothingToResume) =>
         /\ store' = store
         /\ hresp'[h].status = "error"
         /\ hpc'[h] = "idle"]_vars

\* handler h executes a node in this step and saves the next checkpoint
Steps(h) == hpc[h] = "running" /\ hloc'[h] # hloc[h] /\ store'.id = store.id + 1

\* C7: a resume request that finds an interrupt pending re-enters
\* human_approval with the decision as the value interrupt() returns; the
\* step routes on that decision, and the checkpoint that records the step's
\* result has no pending interrupt (every new checkpoint is free of one).
C7_ResumeReentersSuspendedStep ==
  [][\A h \in Handlers :
       /\ (Resumes(h) /\ Pending) =>
            /\ hpc'[h] = "running"
            /\ hloc'[h].next = <<"human_approval">>
            /\ hloc'[h].resume = <<hreq'[h].text>>
            /\ hloc'[h].values = store.values
       /\ (Steps(h) /\ hloc[h].next = <<"human_approval">>) =>
            /\ hloc[h].resume = <<hreq[h].text>>
            /\ store'.next = <<IF hreq[h].text = "approve"
                                 THEN "approved_path" ELSE "rejected_path">>
       /\ Steps(h) => ~Pending']_vars

\* a resumed run has recorded the result of human_approval
C7_Witness ==
  \E h \in Handlers :
    /\ hreq[h].kind = "resume"
    /\ hloc[h].next = <<"rejected_path">>
    /\ store.id = hloc[h].id
    /\ delivered[store.id - 1] = <<"show me cheaper options">>

\* C8: a pending interrupt is answered exactly once: no interrupt has two
\* decisions delivered to its suspended step.
C8_InterruptAnsweredOnce ==
  \A i \in DOMAIN delivered : Len(delivered[i]) <= 1

\* C9: a chat message that arrives while an interrupt is pending is handled
\* as the resume of that interrupt: its text is delivered as the decision to
\* the suspended step, and is not applied as a new input.
C9_ChatResumesPendingInterrupt ==
  [][\A h \in Handlers :
       (Chats(h) /\ Pending) =>
         /\ hloc'[h].next = <<"human_approval">>
         /\ hloc'[h].resume = <<hreq'[h].text>>
         /\ store'.values = store.values]_vars

\* C10: at most one interrupt is pending; a pending interrupt belongs to the
\* latest checkpoint, whose next step is then the suspended step; and when
\* no request is being served, a thread whose next step is the approval
\* step has its interrupt pending.
C10_PendingIffNextIsSuspendedStep ==
  /\ Cardinality(store.interrupts) <= 1
  /\ \A i \in store.interrupts :
       /\ get_thread_state.next_steps = <<i.node>>
       /\ i.node = "human_approval"
       /\ i.checkpoint = store.id
  /\ (Quiescent /\ get_thread_state.next_steps = <<"human_approval">>) => Pending

\* the run suspended again after a decision had been delivered
C10_Witness ==
  /\ Quiescent
  /\ Pending
  /\ \E i \in DOMAIN delivered : delivered[i] # <<>>

\* handler h answers its request in this step
Answers(h) == hpc[h] = "running" /\ hpc'[h] = "idle"

\* handler h serves the first message of a new thread, and no other request
\* has been received
FirstMessage(h) == hreq[h].no = 1 /\ hreq[h].kind = "chat" /\ nreq = 1

\* C11: the run of the first message of a new thread, when it does not fail,
\* ends suspended at the approval step after flight_agent has run: the latest
\* checkpoint names human_approval as next step and holds one pending
\* interrupt whose payload carries the question and the messages, the
\* payload is returned to the caller, and nothing runs after the answer.
C11_FirstMessageSuspendsAtApproval ==
  [][/\ \A h \in Handlers :
          (FirstMessage(h) /\ Answers(h) /\ hresp'[h].status # "error") =>
            /\ store'.next = <<"human_approval">>
            /\ store'.interrupts =
                 {[checkpoint |-> store'.id, node |-> "human_approval",
                   value |-> InterruptPayload(store'.values)]}
            /\ hresp'[h].interrupt = <<InterruptPayload(store'.values)>>
            /\ InterruptPayload(store'.values).question
                 = "Do you approve the following output?"
            /\ Len(store'.values.messages) = 2
            /\ store'.values.messages[1].content = hreq[h].text
            /\ store'.values.messages[2].type = "ai"
     /\ (nreq = 1 /\ nreq' = 1 /\ Quiescent) => store' = store]_vars

\* the first message of a new thread has been answered with the interrupt
C11_Witness ==
  /\ nreq = 1
  /\ Quiescent
  /\ Pending
  /\ \E h \in Handlers : hreq[h].kind = "chat" /\ hresp[h].interrupt # <<>>

\* handler h re-enters human_approval with decision text t in this step
Decides(h, t) ==
  /\ Steps(h)
  /\ hloc[h].next = <<"human_approval">>
  /\ hloc[h].resume = <<t>>

\* C12: resuming a suspended flight approval with "approve" records
\* flight_decision = "approved" in the thread state and routes to hotel_agent.
C12_ApproveRecordsDecisionAndRoutesToHotel ==
  [][\A h \in Handlers :
       Decides(h, "approve") =>
         /\ "flight_decision" \in DOMAIN store'.values
         /\ store'.values["flight_decision"] = "approved"
         /\ store'.next = <<"hotel_agent">>]_vars

\* the decision recorded in values, if any, is not an approval
NotApproved(values) ==
  /\ values.decision # "approved"
  /\ "flight_decision" \in DOMAIN values => values["flight_decision"] # "approved"

TypesOf(messages) == [i \in DOMAIN messages |-> messages[i].type]

\* exactly two requests were received, both chat messages that reached the
\* graph, each served by its own handler, and both were answered normally
TwoChatsAnswered ==
  /\ nreq = 2
  /\ Quiescent
  /\ \A h \in Handlers : /\ hreq[h].kind = "chat"
                          /\ hreq[h].no \in {1, 2}
                          /\ hresp[h].status = "ok"

\* C15: the checkpoints of two chat requests on one thread do not interleave:
\* every append gets a sequence number above all earlier ones, and once both
\* requests are answered the thread holds what the two runs leave when run
\* one after the other: each user message followed by flight_agent's answer.
C15_ConcurrentChatsSerialize ==
  /\ [][store'.id # store.id => store'.id > store.id]_vars
  /\ [](TwoChatsAnswered =>
          /\ TypesOf(store.values.messages) = <<"human", "ai", "human", "ai">>
          /\ \A h \in Handlers :
               \E i \in {1, 3} : store.values.messages[i].content = hreq[h].text)

\* the only request the thread has received so far has failed
FirstRequestFailed ==
  /\ nreq = 1
  /\ Quiescent
  /\ \E h \in Handlers : hreq[h].no = 1 /\ hresp[h].status = "error"

\* C17: a failed run leaves nothing in the thread: when the first request of
\* a new thread has failed, the thread is as it was before the request (it
\* has no checkpoint and no message), so that a retry starts from there.
C17_FailedRunLeavesNoEffects ==
  FirstRequestFailed =>
    /\ store = NoCheckpoint
    /\ get_thread_state.state.messages = <<>>

\* the number of nodes the run of handler h can still execute before it
\* suspends or reaches END
Rank(h) ==
  CASE hloc[h].next = <<>> -> 0
    [] hloc[h].next = <<"approved_path">> -> 1
    [] hloc[h].next = <<"flight_agent">> -> 1
    [] hloc[h].next = <<"rejected_path">> -> 2
    [] hloc[h].next = <<"human_approval">> ->
         IF hloc[h].resume = <<>> THEN 0 ELSE 3

\* C23: an invocation of the approval graph executes a bounded number of
\* steps: every node it executes lowers the number of nodes it can still
\* execute, which is never above 3; human_approval consumes the decision, so
\* the cycle through rejected_path is not entered again without a new one;
\* and an invocation that does not fail ends suspended at human_approval or
\* at END.
C23_InvocationIsBounded ==
  [][\A h \in Handlers :
       /\ hpc'[h] = "running" =>
            /\ hloc'[h].next \in {<<>>, <<"flight_agent">>, <<"human_approval">>,
                                  <<"approved_path">>, <<"rejected_path">>}
            /\ Rank(h)' <= 3
       /\ (hpc[h] = "running" /\ hpc'[h] = "running" /\ hloc'[h] # hloc[h]) =>
            /\ Rank(h)' < Rank(h)
            /\ hloc'[h].resume = <<>>
       /\ (Answers(h) /\ hresp'[h].status # "error") =>
            \/ /\ hloc[h].next = <<"human_approval">>
               /\ hloc[h].resume = <<>>
               /\ hresp'[h].interrupt # <<>>
            \/ /\ hloc[h].next = <<>>
               /\ hresp'[h].interrupt = <<>>]_vars

\* a run that went once through rejected_path has suspended, and a run that
\* went through approved_path has ended
C23_Witness ==
  /\ Quiescent
  /\ \E i, j \in DOMAIN delivered :
       /\ delivered[i] = <<"show me cheaper options">>
       /\ delivered[j] = <<"approve">>
  /\ store.next = <<>>

\* no two messages of the list have the same id
DistinctIds(messages) ==
  \A i, j \in DOMAIN messages : messages[i].id = messages[j].id => i = j

\* C25: the rejection patch messages + [input], merged by the reducer of
\* the messages channel, leaves the messages the step was given, in their
\* order, followed by exactly one new human message holding the feedback;
\* no earlier message is duplicated.
C25_RejectionAppendsFeedbackOnce ==
  [][\A h \in Handlers : \A t \in Texts \ {"approve"} :
       Decides(h, t) =>
         LET before == hloc[h].values.messages
             after == store'.values.messages
         IN /\ Len(after) = Len(before) + 1
            /\ \A i \in DOMAIN before : after[i] = before[i]
            /\ after[Len(after)].type = "human"
            /\ after[Len(after)].content = t
            /\ DistinctIds(after)
            /\ store.id = hloc[h].id =>
                 SubSeq(after, 1, Len(before)) = store.values.messages]_vars

\* a rejection has been recorded on a thread of two messages
C25_Witness ==
  \E h \in Handlers :
    /\ hloc[h].next = <<"rejected_path">>
    /\ store.values = hloc[h].values
    /\ TypesOf(store.values.messages) = <<"human", "ai", "human">>
    /\ store.values.messages[3].content = "show me cheaper options"

\* handler h ends a websocket invocation without an error in this step
StreamEnds(h) == Answers(h) /\ hreq[h].via = "ws" /\ hresp'[h].status # "error"

\* C29: a run that reaches END leaves the thread without next steps; a
\* streaming invocation that does not fail sends "complete" exactly when the
\* thread has no next step after it; and an invocation that ended in an
\* interrupt has sent "interrupt" and no "complete".
C29_CompleteIffNoNextStep ==
  [][\A h \in Handlers :
       /\ (Steps(h) /\ hloc'[h].next = <<>>) => get_thread_state.next_steps' = <<>>
       /\ StreamEnds(h) =>
            /\ Occurs("complete", hresp'[h].events)
                 <=> get_thread_state.next_steps' = <<>>
            /\ hresp'[h].interrupt # <<>> =>
                 /\ Occurs("interrupt", hresp'[h].events)
                 /\ ~Occurs("complete", hresp'[h].events)]_vars

\* ------------------------------------------------------------------------
\* Claims about the approval step factory
\* ------------------------------------------------------------------------
\* C24: a step built by make_human_approval goes to approve_dest and records
\* decision "approved" exactly when the resumed value is the string
\* "approve"; for every other value it goes to reject_dest and records
\* decision "rejected"; it goes nowhere else.
C24_ApprovalRoutesOnExactApprove ==
  approval.command # NoCommand =>
    /\ approval.command.goto \in {approval.approve_dest, approval.reject_dest}
    /\ IF approval.decision = "approve"
         THEN /\ approval.command.goto = approval.approve_dest
              /\ approval.values.decision = "approved"
         ELSE /\ approval.command.goto = approval.reject_dest
              /\ approval.values.decision = "rejected"

\* a step was resumed with "Approve" and took the rejection route
C24_Witness ==
  /\ approval.decision = "Approve"
  /\ approval.approve_dest = "hotel_agent"
  /\ approval.command.goto = "flight_agent"
  /\ approval.values.decision = "rejected"

\* ------------------------------------------------------------------------
\* Claims about AmadeusAuth.get_token
\* ------------------------------------------------------------------------
\* caller c is served from the cache in this step
ServedFromCache(c) == apc[c] = "idle" /\ apc'[c] = "idle" /\ aret'[c] # aret[c]

\* the fetch of caller c ends in this step, by raising or with a token
FetchFails(c) == apc[c] = "fetching" /\ apc'[c] = "idle" /\ aret'[c].value = "raised"
FetchSucceeds(c) == apc[c] = "fetching" /\ apc'[c] = "idle" /\ aret'[c].value # "raised"

====
